---- MODULE Spec2Model ----
(***************************************************************************)
(* PasteGuard masking engine: placeholder context, conflict resolver,      *)
(* span masker, masking orchestrator, response unmasker and the buffering  *)
(* stream unmasker, as described by the technical guide of the repository, *)
(* and main() of the repository's setup script.                            *)
(* Texts are sequences of one-character strings.                           *)
(***************************************************************************)
EXTENDS Integers, Sequences, FiniteSets, TLC

VARIABLES
    stream,     \* the whole upstream text of the streamed response
    pos,        \* number of characters of stream already delivered as chunks
    buffer,     \* stream transformer: the carry-over (`let buffer = ""`)
    output,     \* stream transformer: the last value yielded
    emitted,    \* concatenation of everything yielded so far
    spc,        \* stream transformer position: "idle" | "reading" | "done"
                \*   | "aborted" | "cancelled"
    fed,        \* the text handed to unmask so far, before unmasking
    upstream,   \* the upstream of the streamed response: "none" | "open"
                \*   | "ended" | "failed" | "cancelled"
    client,     \* the client of the streamed response: "none" | "connected"
                \*   | "disconnected"
    bytes,      \* SSE re-framer: the whole upstream byte stream
    bpos,       \* SSE re-framer: number of bytes already received
    upstream_buffer, \* SSE re-framer: the trailing partial frame it retains
    frames,     \* SSE re-framer: the frames emitted so far, in order
    fpc,        \* SSE re-framer position: "idle" | "reading" | "done"
    ctx,        \* a PlaceholderContext under allocate and merge
    other,      \* another PlaceholderContext, the argument of merge
    returned,   \* <<category, original>> -> token the first allocate on ctx returned
    issuedN,    \* category -> the numbers N of the tokens allocate newly issued on ctx
    calls,      \* how many allocate (on ctx, on other) and merge calls were made
    rIn,        \* conflict resolver: the entities detected, to be handed to resolveConflicts
    rReading,   \* conflict resolver: how its step 3 treats a pair with a dropped interval
    rOut,       \* conflict resolver: the list it returned
    rScan,      \* conflict resolver: what a second call returned for the same entities
    rpc,        \* conflict resolver position: "idle" | "input" | "resolved"
    config,     \* request handling: [mode, enabled, show_markers] of the deployment
    request,    \* the client's request: a list of content parts
    det,        \* part index -> the detector call for that span and its result
    completed,  \* the part indices of the detector calls, in completion order
    opc,        \* request handling position
    mctx,       \* the PlaceholderContext of the request
    resolved,   \* part index -> the detected entities resolveConflicts returned for it
    dispatched, \* [target, request]: what was sent to which provider
    clientResponse, \* what the client received
    uText,      \* response unmasking: the response text handed to unmask
    uContext,   \* response unmasking: the context handed to unmask
    uConfig,    \* response unmasking: the masking configuration handed to unmask
    uOut,       \* response unmasking: the text unmask returned
    upc,        \* response unmasking position: "idle" | "called" | "returned"
    env,        \* setup script: the machine it runs on
    pc,         \* setup script: the statement main() is at
    exitCode,   \* setup script: -1 while the process runs, else its exit status
    trace,      \* setup script: the messages printed and commands started, in order
    ready       \* setup script: which of bun, podman was found or installed

textVars == <<stream, pos, buffer, output, emitted, spc, fed, upstream, client>>
frameVars == <<bytes, bpos, upstream_buffer, frames, fpc>>
streamVars == <<textVars, frameVars>>
ctxVars == <<ctx, other, returned, issuedN, calls>>
resolverVars == <<rIn, rReading, rOut, rScan, rpc>>
orchVars == <<config, request, det, completed, opc, mctx, resolved, dispatched,
              clientResponse>>
unmaskVars == <<uText, uContext, uConfig, uOut, upc>>
setupVars == <<env, pc, exitCode, trace, ready>>

vars == <<stream, pos, buffer, output, emitted, spc, fed, upstream, client,
          bytes, bpos, upstream_buffer, frames, fpc,
          ctx, other, returned, issuedN, calls, rIn, rReading, rOut, rScan, rpc,
          config, request, det, completed, opc, mctx, resolved, dispatched,
          clientResponse, uText, uContext, uConfig, uOut, upc,
          env, pc, exitCode, trace, ready>>

\* Each specification below runs one component; the others stay idle.
TextIdle ==
    /\ stream = <<>>
    /\ pos = 0
    /\ buffer = <<>>
    /\ output = <<>>
    /\ emitted = <<>>
    /\ spc = "idle"
    /\ fed = <<>>
    /\ upstream = "none"
    /\ client = "none"

FramesIdle ==
    /\ bytes = <<>>
    /\ bpos = 0
    /\ upstream_buffer = <<>>
    /\ frames = <<>>
    /\ fpc = "idle"

StreamIdle == TextIdle /\ FramesIdle

ResolverIdle ==
    /\ rIn = {}
    /\ rReading = "none"
    /\ rOut = <<>>
    /\ rScan = <<>>
    /\ rpc = "idle"

OrchIdle ==
    /\ config = [ mode |-> "mask", enabled |-> TRUE, show_markers |-> FALSE ]
    /\ request = <<>>
    /\ det = <<>>
    /\ completed = <<>>
    /\ opc = "idle"
    /\ mctx = [ mapping |-> <<>>, reverseMapping |-> <<>>, counters |-> <<>> ]
    /\ resolved = <<>>
    /\ dispatched = [ target |-> "none", request |-> <<>> ]
    /\ clientResponse = [ status |-> "none", body |-> <<>> ]

UnmaskIdle ==
    /\ uText = <<>>
    /\ uContext = [ mapping |-> <<>>, reverseMapping |-> <<>>, counters |-> <<>> ]
    /\ uConfig = [ show_markers |-> FALSE, marker_text |-> <<>> ]
    /\ uOut = <<>>
    /\ upc = "idle"

SetupIdle ==
    /\ env = <<>>
    /\ pc = "idle"
    /\ exitCode = -1
    /\ trace = <<>>
    /\ ready = {}

----------------------------------------------------------------------------
(* Texts *)

\* JavaScript String.prototype.slice(from, to) with 0-based, in-range bounds.
slice(text, from, to) == SubSeq(text, from + 1, to)

\* text.startsWith(pat, i) for a 0-based index i.
startsWithAt(text, pat, i) ==
    /\ i >= 0
    /\ i + Len(pat) <= Len(text)
    /\ \A k \in 1..Len(pat) : text[i + k] = pat[k]

\* 0-based indices at which pat occurs in text.
occurrences(text, pat) == { i \in 0..Len(text) : startsWithAt(text, pat, i) }

SetMax(S) == CHOOSE x \in S : \A y \in S : y <= x
SetMin(S) == CHOOSE x \in S : \A y \in S : x <= y

\* text.lastIndexOf(pat): -1 when absent.
lastIndexOf(text, pat) ==
    IF occurrences(text, pat) = {} THEN -1 ELSE SetMax(occurrences(text, pat))

\* text.indexOf(pat, from): -1 when absent.
indexOfFrom(text, pat, from) ==
    LET hits == { i \in occurrences(text, pat) : i >= from }
    IN  IF hits = {} THEN -1 ELSE SetMin(hits)

OPEN  == <<"[", "[">>
CLOSE == <<"]", "]">>

\* Decimal digits of a positive integer, no padding.
DigitChar == <<"0", "1", "2", "3", "4", "5", "6", "7", "8", "9">>

RECURSIVE Decimal(_)
Decimal(n) ==
    IF n < 10 THEN <<DigitChar[n + 1]>>
    ELSE Decimal(n \div 10) \o <<DigitChar[(n % 10) + 1]>>

\* PII_PLACEHOLDER_FORMAT = "[[{TYPE}_{N}]]"; a category name is a text.
PII_PLACEHOLDER_FORMAT(type, n) == OPEN \o type \o <<"_">> \o Decimal(n) \o CLOSE

----------------------------------------------------------------------------
(* Placeholder wire grammar *)

UpperChars == { "P", "E", "K" }
DigitChars == { DigitChar[k] : k \in 1..10 }

\* content matches [A-Z][A-Z0-9_]*_[0-9]+
isPlaceholderContent(c) ==
    /\ Len(c) >= 3
    /\ c[1] \in UpperChars
    /\ \E k \in 2..(Len(c) - 1) :
          /\ c[k] = "_"
          /\ \A j \in 2..(k - 1) : c[j] \in UpperChars \cup DigitChars \cup {"_"}
          /\ \A j \in (k + 1)..Len(c) : c[j] \in DigitChars

\* End (exclusive, 0-based) of the grammar placeholder starting at i, or -1.
placeholderEndAt(text, i) ==
    LET close == IF startsWithAt(text, OPEN, i)
                 THEN indexOfFrom(text, CLOSE, i + 2) ELSE -1
    IN  IF close # -1 /\ isPlaceholderContent(slice(text, i + 2, close))
        THEN close + 2 ELSE -1

\* Every bracket of the text belongs to a complete placeholder.
RECURSIVE onlyCompleteFrom(_, _)
onlyCompleteFrom(text, i) ==
    IF i >= Len(text) THEN TRUE
    ELSE IF text[i + 1] \in {"[", "]"}
         THEN /\ placeholderEndAt(text, i) # -1
              /\ onlyCompleteFrom(text, placeholderEndAt(text, i))
         ELSE onlyCompleteFrom(text, i + 1)

OnlyCompletePlaceholders(text) == onlyCompleteFrom(text, 0)

----------------------------------------------------------------------------
(* Response unmasking *)

\* The characters the regular expression's `.` does not match (there is no
\* s flag): line feed, carriage return, and the two Unicode separators
\* U+2028 and U+2029, which are written here by their code points.
NL == "\n"
CR == "\r"
LS == "u2028"
PS == "u2029"
LineTerminators == { NL, CR, LS, PS }

\* End (exclusive, 0-based) of the match of \[\[.*?\]\] that starts at i, or
\* -1: "[[" at i, then the first "]]" after it, with no line terminator in
\* between. A later "]]" cannot help, the terminator would still be inside.
matchEndAt(text, i) ==
    LET close == IF startsWithAt(text, OPEN, i)
                 THEN indexOfFrom(text, CLOSE, i + 2) ELSE -1
    IN  IF close # -1 /\ \A k \in (i + 3)..close : text[k] \notin LineTerminators
        THEN close + 2 ELSE -1

\* masking.show_markers and masking.marker_text of the configuration.
marker_text == <<"[", "p", "r", "o", "t", "e", "c", "t", "e", "d", "]">>
MaskingConfig == { [ show_markers |-> b, marker_text |-> marker_text ] : b \in BOOLEAN }

\* The configuration of config.yaml: show_markers: false.
MaskingDefaults == [ show_markers |-> FALSE, marker_text |-> marker_text ]

\* What a token that is a key of the mapping is replaced by: the original
\* value, prefixed by the marker text when show_markers is on.
replacement(original, masking) ==
    IF masking.show_markers THEN masking.marker_text \o original ELSE original

\* unmask(text, context, config), the config parameter being the masking
\* section of the configuration: every match of \[\[.*?\]\] (leftmost,
\* shortest, scanning resumes after the match) is looked up in the context
\* mapping and replaced when it is a key; a match that is no key stays as
\* it is.
RECURSIVE unmaskFrom(_, _, _, _)
unmaskFrom(text, i, mapping, masking) ==
    IF i >= Len(text) THEN <<>>
    ELSE
        LET end == matchEndAt(text, i)
        IN  IF end = -1
            THEN <<text[i + 1]>> \o unmaskFrom(text, i + 1, mapping, masking)
            ELSE
                LET placeholder == slice(text, i, end)
                IN  (IF placeholder \in DOMAIN mapping
                     THEN replacement(mapping[placeholder], masking)
                     ELSE placeholder)
                    \o unmaskFrom(text, end, mapping, masking)

\* A text unmasker that drops what it does not know.
RECURSIVE unmaskKnownFrom(_, _, _, _)
unmaskKnownFrom(text, i, mapping, masking) ==
    IF i >= Len(text) THEN <<>>
    ELSE
        LET end == matchEndAt(text, i)
        IN  IF end = -1
            THEN <<text[i + 1]>> \o unmaskKnownFrom(text, i + 1, mapping, masking)
            ELSE
                LET placeholder == slice(text, i, end)
                IN  (IF placeholder \in DOMAIN mapping
                     THEN replacement(mapping[placeholder], masking)
                     ELSE <<>>)
                    \o unmaskKnownFrom(text, end, mapping, masking)

unmask_dropUnknown(text, context, masking) ==
    unmaskKnownFrom(text, 0, context.mapping, masking)

unmask(text, context, masking) == unmaskFrom(text, 0, context.mapping, masking)

----------------------------------------------------------------------------
(* Placeholder context *)

PERSON == <<"P">>
EMAIL_ADDRESS == <<"E">>
API_KEY == <<"K">>

\* A fresh context: no mapping, no counter.
createContext == [ mapping |-> <<>>, reverseMapping |-> <<>>, counters |-> <<>> ]

counterOf(context, category) ==
    IF category \in DOMAIN context.counters THEN context.counters[category] ELSE 0

\* allocate(category, original): the existing token when the reverse mapping
\* holds original; otherwise the category's counter is incremented, the token
\* formatted and both mappings recorded. Result: the token, whether it is
\* newly issued, and the context. (allocate_noReuse: the variant that never
\* consults the reverse mapping.)
allocate_noReuse(context, category, original) ==
    LET n == counterOf(context, category) + 1
        token == PII_PLACEHOLDER_FORMAT(category, n)
    IN  [ token   |-> token,
          fresh   |-> TRUE,
          context |-> [ mapping        |-> (token :> original) @@ context.mapping,
                        reverseMapping |-> (original :> token) @@ context.reverseMapping,
                        counters       |-> (category :> n) @@ context.counters ] ]

allocate(context, category, original) ==
    IF original \in DOMAIN context.reverseMapping
    THEN [ token   |-> context.reverseMapping[original],
           fresh   |-> FALSE,
           context |-> context ]
    ELSE
        LET n == counterOf(context, category) + 1
            token == PII_PLACEHOLDER_FORMAT(category, n)
        IN  [ token   |-> token,
              fresh   |-> TRUE,
              context |-> [ mapping        |-> (token :> original) @@ context.mapping,
                            reverseMapping |-> (original :> token) @@ context.reverseMapping,
                            counters       |-> (category :> n) @@ context.counters ] ]

\* lookup(token): the original, or absent.
lookup(context, token) ==
    IF token \in DOMAIN context.mapping
    THEN [ present |-> TRUE, original |-> context.mapping[token] ]
    ELSE [ present |-> FALSE, original |-> <<>> ]

Max(a, b) == IF a >= b THEN a ELSE b

\* merge(other): union of the mappings, the existing entry winning on a key
\* conflict; every counter advances to the maximum of the two.
merge(context, from) ==
    [ mapping        |-> context.mapping @@ from.mapping,
      reverseMapping |-> context.reverseMapping @@ from.reverseMapping,
      counters       |-> [ c \in DOMAIN context.counters \cup DOMAIN from.counters |->
                             Max(counterOf(context, c), counterOf(from, c)) ] ]

Categories == { PERSON, EMAIL_ADDRESS }
Originals == { <<"b", "o">>, <<"a", "l">>, <<"c">> }

MaxAllocs == 3
MaxOtherAllocs == 2
MaxMerges == 1

CtxIdle ==
    /\ ctx = createContext
    /\ other = createContext
    /\ returned = <<>>
    /\ issuedN = [ c \in Categories |-> <<>> ]
    /\ calls = [ this |-> 0, that |-> 0, merges |-> 0 ]

CtxInit ==
    CtxIdle /\ StreamIdle /\ ResolverIdle /\ OrchIdle /\ UnmaskIdle /\ SetupIdle

\* ctx.allocate(category, original)
Allocate(category, original) ==
    /\ calls.this < MaxAllocs
    /\ LET r == allocate(ctx, category, original)
       IN  /\ ctx' = r.context
           /\ returned' = IF <<category, original>> \in DOMAIN returned
                          THEN returned
                          ELSE (<<category, original>> :> r.token) @@ returned
           /\ issuedN' = IF r.fresh
                         THEN [ issuedN EXCEPT ![category] =
                                  Append(@, counterOf(r.context, category)) ]
                         ELSE issuedN
    /\ calls' = [ calls EXCEPT !.this = @ + 1 ]
    /\ UNCHANGED other
    /\ UNCHANGED streamVars
    /\ UNCHANGED unmaskVars
    /\ UNCHANGED setupVars
    /\ UNCHANGED resolverVars
    /\ UNCHANGED orchVars

\* other.allocate(category, original)
AllocateOther(category, original) ==
    /\ calls.that < MaxOtherAllocs
    /\ other' = allocate(other, category, original).context
    /\ calls' = [ calls EXCEPT !.that = @ + 1 ]
    /\ UNCHANGED <<ctx, returned, issuedN>>
    /\ UNCHANGED streamVars
    /\ UNCHANGED unmaskVars
    /\ UNCHANGED setupVars
    /\ UNCHANGED resolverVars
    /\ UNCHANGED orchVars

\* ctx.merge(other)
Merge ==
    /\ calls.merges < MaxMerges
    /\ ctx' = merge(ctx, other)
    /\ calls' = [ calls EXCEPT !.merges = @ + 1 ]
    /\ UNCHANGED <<other, returned, issuedN>>
    /\ UNCHANGED streamVars
    /\ UNCHANGED unmaskVars
    /\ UNCHANGED setupVars
    /\ UNCHANGED resolverVars
    /\ UNCHANGED orchVars

CtxNext ==
    \/ \E c \in Categories, s \in Originals : Allocate(c, s)
    \/ \E c \in Categories, s \in Originals : AllocateOther(c, s)
    \/ Merge

SpecCtx == CtxInit /\ [][CtxNext]_vars

----------------------------------------------------------------------------
(* Conflict resolver *)

\* An entity: [entity_type, start, end, score], the half-open interval
\* [start, end) of a text. Scores are compared only, and kept as integers.
\* An overlap test that also takes touching intervals as overlapping.
overlaps_orTouch(a, b) == a.start <= b.end /\ b.start <= a.end

overlaps(a, b) == a.start < b.end /\ b.start < a.end

\* Same type, overlapping or touching: eligible for merging.
mergeEligible(a, b) == a.start <= b.end /\ b.start <= a.end

CharCode == ("E" :> 69) @@ ("K" :> 75) @@ ("P" :> 80)

\* Lexicographic order of two category names.
RECURSIVE lexLess(_, _)
lexLess(a, b) ==
    IF b = <<>> THEN FALSE
    ELSE IF a = <<>> THEN TRUE
    ELSE IF Head(a) # Head(b) THEN CharCode[Head(a)] < CharCode[Head(b)]
    ELSE lexLess(Tail(a), Tail(b))

\* A comparison that decides by score and length only.
beats_noTieBreak(a, b) ==
    IF a.score # b.score THEN a.score > b.score
    ELSE (a.end - a.start) > (b.end - b.start)

\* a is retained over b: the higher score; then the longer interval; then the
\* earlier start; then the lexicographically smaller category.
beats(a, b) ==
    IF a.score # b.score THEN a.score > b.score
    ELSE IF (a.end - a.start) # (b.end - b.start)
         THEN (a.end - a.start) > (b.end - b.start)
    ELSE IF a.start # b.start THEN a.start < b.start
    ELSE lexLess(a.entity_type, b.entity_type)

Range(seq) == { seq[k] : k \in 1..Len(seq) }

\* The entities of a set listed by start (then end, score, type).
before(a, b) ==
    IF a.start # b.start THEN a.start < b.start
    ELSE IF a.end # b.end THEN a.end < b.end
    ELSE IF a.score # b.score THEN a.score < b.score
    ELSE lexLess(a.entity_type, b.entity_type)

RECURSIVE inStartOrder(_)
inStartOrder(S) ==
    IF S = {} THEN <<>>
    ELSE LET first == CHOOSE e \in S : \A f \in S : f = e \/ before(e, f)
         IN  <<first>> \o inStartOrder(S \ {first})

\* Step 1: the types of the list in order of first appearance, and the
\* entities of one type in list order.
RECURSIVE typesFrom(_, _)
typesFrom(entities, seen) ==
    IF entities = <<>> THEN <<>>
    ELSE IF Head(entities).entity_type \in seen
         THEN typesFrom(Tail(entities), seen)
         ELSE <<Head(entities).entity_type>>
              \o typesFrom(Tail(entities), seen \cup { Head(entities).entity_type })

groupOf(entities, type) == SelectSeq(entities, LAMBDA e : e.entity_type = type)

\* A list sorted by start; entities with the same start keep their order.
RECURSIVE insertByStart(_, _)
insertByStart(sorted, e) ==
    IF sorted = <<>> THEN <<e>>
    ELSE IF e.start < Head(sorted).start THEN <<e>> \o sorted
    ELSE <<Head(sorted)>> \o insertByStart(Tail(sorted), e)

RECURSIVE sortByStart(_)
sortByStart(list) ==
    IF list = <<>> THEN <<>>
    ELSE insertByStart(sortByStart(SubSeq(list, 1, Len(list) - 1)), list[Len(list)])

\* Step 2 on one group, sorted by start: an entity that overlaps or touches
\* the interval being built extends it, and the score becomes the maximum.
RECURSIVE mergeSorted(_, _)
mergeSorted(current, rest) ==
    IF rest = <<>> THEN <<current>>
    ELSE IF mergeEligible(current, Head(rest))
         THEN mergeSorted([ current EXCEPT !.end = Max(@, Head(rest).end),
                                           !.score = Max(@, Head(rest).score) ],
                          Tail(rest))
         ELSE <<current>> \o mergeSorted(Head(rest), Tail(rest))

mergeOverlapping(group) ==
    IF group = <<>> THEN <<>>
    ELSE LET sorted == sortByStart(group)
         IN  mergeSorted(Head(sorted), Tail(sorted))

\* Steps 1 and 2: group by entity_type, merge within each group; the merged
\* intervals group after group.
RECURSIVE mergeGroups(_, _)
mergeGroups(entities, types) ==
    IF types = <<>> THEN <<>>
    ELSE mergeOverlapping(groupOf(entities, Head(types)))
         \o mergeGroups(entities, Tail(types))

mergeByType(entities) == mergeGroups(entities, typesFrom(entities, {}))

\* The one of an overlapping pair that is not retained.
loser(a, b) == IF beats(a, b) THEN b ELSE a

\* Step 3 as a scan of the merged intervals in a given order: each pair of
\* intervals of different types that overlap is looked at in turn and the
\* one that is not retained is dropped. What the scan does with a pair one
\* of whose intervals was dropped earlier is left open by the description:
\* with skipRemoved such a pair is passed over, without it every overlapping
\* pair of the merged intervals is decided.
RECURSIVE scanFrom(_, _, _, _, _)
scanFrom(order, k, j, retained, skipRemoved) ==
    IF k > Len(order) THEN retained
    ELSE IF j > Len(order) THEN scanFrom(order, k + 1, 1, retained, skipRemoved)
    ELSE IF /\ order[k].entity_type # order[j].entity_type
            /\ overlaps(order[k], order[j])
            /\ skipRemoved => (order[k] \in retained /\ order[j] \in retained)
         THEN scanFrom(order, k, j + 1,
                       retained \ { loser(order[k], order[j]) }, skipRemoved)
         ELSE scanFrom(order, k, j + 1, retained, skipRemoved)

\* A step 3 that removes nothing.
removeConflicting_none(order, skipRemoved) == order

\* Step 3: the intervals the scan retains, in the order of the scan.
removeConflicting(order, skipRemoved) ==
    LET retained == scanFrom(order, 1, 1, Range(order), skipRemoved)
    IN  SelectSeq(order, LAMBDA e : e \in retained)

\* The orders in which the elements of a set can be listed or visited.
RECURSIVE ScanOrders(_)
ScanOrders(S) ==
    IF S = {} THEN { <<>> }
    ELSE UNION { { <<e>> \o order : order \in ScanOrders(S \ {e}) } : e \in S }

\* resolveConflicts(entities). Two things the description leaves open are
\* arguments here: visit, the order in which step 3 goes through the merged
\* intervals (a permutation of their indices), and skipRemoved.
resolveConflicts(entities, visit, skipRemoved) ==
    LET merged == mergeByType(entities)
        order == [ i \in 1..Len(merged) |-> merged[visit[i]] ]
    IN  sortByStart(removeConflicting(order, skipRemoved))

\* What resolveConflicts can return for the entities S, handed over as a
\* list in any order, with step 3 visiting the merged intervals in any
\* order. The order of the list reaches step 3 only through the merged
\* intervals, so one list is taken for each set of merged intervals that the
\* orders of the list give.
resolutions(S, skipRemoved) ==
    LET lists == ScanOrders(S)
        mergedSets == { Range(mergeByType(entities)) : entities \in lists }
    IN  UNION { LET entities == CHOOSE list \in lists : Range(mergeByType(list)) = merged
                IN  { resolveConflicts(entities, visit, skipRemoved) :
                        visit \in ScanOrders(1..Cardinality(merged)) } :
                merged \in mergedSets }

EntityTypes == { PERSON, EMAIL_ADDRESS }
Scores == { 1, 2 }
MaxPos == 3
MaxEntities == 3

\* Every entity over a text of MaxPos characters: 0 <= start < end <= MaxPos.
EntityUniverse ==
    { [ entity_type |-> t, start |-> s, end |-> e, score |-> sc ] :
        t \in EntityTypes, s \in 0..(MaxPos - 1), e \in 1..MaxPos, sc \in Scores }
    \ { x \in [ entity_type : EntityTypes, start : 0..MaxPos, end : 0..MaxPos,
                score : Scores ] : x.start >= x.end }

\* The two ways step 3 can treat a pair with an interval already dropped.
Readings == { "everyPair", "retainedPairs" }

ResolverInit ==
    /\ CtxIdle
    /\ StreamIdle
    /\ UnmaskIdle
    /\ SetupIdle
    /\ OrchIdle
    /\ rIn = {}
    /\ rReading = "open"
    /\ rOut = <<>>
    /\ rScan = <<>>
    /\ rpc = "input"

\* One more entity is detected; the list of them is put in order only when
\* it is handed to resolveConflicts.
AddEntity(e) ==
    /\ rpc = "input"
    /\ Cardinality(rIn) < MaxEntities
    /\ e \notin rIn
    /\ rIn' = rIn \cup {e}
    /\ UNCHANGED <<rReading, rOut, rScan, rpc>>
    /\ UNCHANGED streamVars
    /\ UNCHANGED unmaskVars
    /\ UNCHANGED setupVars
    /\ UNCHANGED ctxVars
    /\ UNCHANGED orchVars

\* resolveConflicts is called twice on the detected entities by a resolver
\* that treats dropped intervals in one of the two ways, each time with the
\* list in some order and with step 3 visiting the merged intervals in some
\* order.
Resolve(reading) ==
    /\ rpc = "input"
    /\ \E first, second \in resolutions(rIn, reading = "retainedPairs") :
          /\ rOut' = first
          /\ rScan' = second
    /\ rReading' = reading
    /\ rpc' = "resolved"
    /\ UNCHANGED rIn
    /\ UNCHANGED streamVars
    /\ UNCHANGED unmaskVars
    /\ UNCHANGED setupVars
    /\ UNCHANGED ctxVars
    /\ UNCHANGED orchVars

ResolverNext ==
    \/ \E e \in EntityUniverse : AddEntity(e)
    \/ \E reading \in Readings : Resolve(reading)

SpecResolve == ResolverInit /\ [][ResolverNext]_vars

----------------------------------------------------------------------------
(* Secret scanner, span masker, request extractor *)

\* pii_detection.whitelist: the phrases whose text is excluded from masking.
Whitelist == { <<"b", "b">> }

isWhitelisted_never(original) == FALSE

\* An original matches a whitelist entry when it stands in the entry: the
\* entry itself, or a part of the phrase (the guide's "Claude" against the
\* entry "You are Claude Code, Anthropic's official CLI for Claude.").
isWhitelisted(original) == \E entry \in Whitelist : occurrences(entry, original) # {}

\* The secret scanner: every maximal run of the character "s" is a credential,
\* reported as an API_KEY entity with the top score.
SecretScore == 2

scanSecrets(text) ==
    { [ entity_type |-> API_KEY, start |-> i, end |-> j, score |-> SecretScore ] :
        <<i, j>> \in { p \in (0..Len(text)) \X (0..Len(text)) :
                        /\ p[1] < p[2]
                        /\ \A k \in (p[1] + 1)..p[2] : text[k] = "s"
                        /\ (p[1] = 0 \/ text[p[1]] # "s")
                        /\ (p[2] = Len(text) \/ text[p[2] + 1] # "s") } }

\* mask(text, entities, context): walk the disjoint, sorted entities left to
\* right; a whitelisted original is emitted verbatim, any other is replaced
\* by the token allocated for it.
RECURSIVE maskFrom(_, _, _, _)
maskFrom(text, entities, cursor, context) ==
    IF entities = <<>>
    THEN [ masked |-> slice(text, cursor, Len(text)), context |-> context ]
    ELSE
        LET e == Head(entities)
            original == slice(text, e.start, e.end)
        IN  IF isWhitelisted(original)
            THEN LET rest == maskFrom(text, Tail(entities), e.end, context)
                 IN  [ masked  |-> slice(text, cursor, e.end) \o rest.masked,
                       context |-> rest.context ]
            ELSE LET a == allocate(context, e.entity_type, original)
                     rest == maskFrom(text, Tail(entities), e.end, a.context)
                 IN  [ masked  |-> slice(text, cursor, e.start) \o a.token \o rest.masked,
                       context |-> rest.context ]

mask(text, entities, context) == maskFrom(text, entities, 0, context)

\* A request is a list of content parts; a part is a text or an image.
TextPart(text) == [ type |-> "text", text |-> text ]
ImagePart == [ type |-> "image_url", text |-> <<>> ]

\* extractTexts(request): the spans of the text parts, in request order.
RECURSIVE extractFrom(_, _)
extractFrom(req, i) ==
    IF i > Len(req) THEN <<>>
    ELSE (IF req[i].type = "text"
          THEN << [ text |-> req[i].text, partIndex |-> i ] >> ELSE <<>>)
         \o extractFrom(req, i + 1)

extractTexts(req) == extractFrom(req, 1)

\* applyMasked(request, maskedSpans): each masked text goes back to its part.
applyMasked(req, maskedSpans) ==
    [ i \in 1..Len(req) |->
        IF \E k \in 1..Len(maskedSpans) : maskedSpans[k].partIndex = i
        THEN [ req[i] EXCEPT !.text =
                 maskedSpans[CHOOSE k \in 1..Len(maskedSpans) :
                                maskedSpans[k].partIndex = i].maskedText ]
        ELSE req[i] ]

\* maskSpans that allocates for the later spans first.
RECURSIVE maskSpans_lastFirst(_, _, _)
maskSpans_lastFirst(spans, entities, context) ==
    IF spans = <<>> THEN [ maskedSpans |-> <<>>, context |-> context ]
    ELSE LET rest == maskSpans_lastFirst(Tail(spans), entities, context)
             m == mask(Head(spans).text, entities[Head(spans).partIndex], rest.context)
         IN  [ maskedSpans |-> << [ maskedText |-> m.masked,
                                    partIndex |-> Head(spans).partIndex ] >>
                               \o rest.maskedSpans,
               context |-> m.context ]

\* maskSpans that stops after the first span.
maskSpans_firstOnly(spans, entities, context) ==
    IF spans = <<>> THEN [ maskedSpans |-> <<>>, context |-> context ]
    ELSE LET m == mask(Head(spans).text, entities[Head(spans).partIndex], context)
         IN  [ maskedSpans |-> << [ maskedText |-> m.masked,
                                    partIndex |-> Head(spans).partIndex ] >>,
               context |-> m.context ]

\* maskSpans(spans, entities, ...): every span in extraction order, the same
\* context threaded through; entities maps a part index to its entity list.
RECURSIVE maskSpans(_, _, _)
maskSpans(spans, entities, context) ==
    IF spans = <<>> THEN [ maskedSpans |-> <<>>, context |-> context ]
    ELSE LET m == mask(Head(spans).text, entities[Head(spans).partIndex], context)
             rest == maskSpans(Tail(spans), entities, m.context)
         IN  [ maskedSpans |-> << [ maskedText |-> m.masked,
                                    partIndex |-> Head(spans).partIndex ] >>
                               \o rest.maskedSpans,
               context |-> rest.context ]

\* unmaskResponse: unmask applied to every text of the response.
unmaskResponse(texts, context, masking) ==
    [ i \in 1..Len(texts) |-> unmask(texts[i], context, masking) ]

----------------------------------------------------------------------------
(* Masking orchestrator: one request from receipt to response *)

RequestChars == { "a", "b", "s", "[" }
\* The analyzer is asked for one category; the secret scanner adds API_KEY.
DetectorTypes == { PERSON }
DetectorScores == { 1 }

MaxParts == 2
MaxRequestChars == 3
MaxDetected == 1

RequestTexts == UNION { [1..n -> RequestChars] : n \in 0..MaxRequestChars }

RECURSIVE totalChars(_)
totalChars(req) == IF req = <<>> THEN 0 ELSE Len(Head(req).text) + totalChars(Tail(req))

\* The requests of exactly n parts with at most budget characters of text.
RECURSIVE RequestsOf(_, _)
RequestsOf(n, budget) ==
    IF n = 0 THEN { <<>> }
    ELSE UNION { { <<part>> \o rest : rest \in RequestsOf(n - 1, budget - Len(part.text)) }
                 : part \in { TextPart(t) : t \in { x \in RequestTexts : Len(x) <= budget } }
                            \cup { ImagePart } }

\* Requests of at most MaxParts parts and MaxRequestChars characters of text.
Requests == UNION { RequestsOf(n, MaxRequestChars) : n \in 1..MaxParts }

\* What the analyzer may answer for a text: entities inside the text.
DetectableIn(text) ==
    { e \in [ entity_type : DetectorTypes, start : 0..Len(text),
              end : 0..Len(text), score : DetectorScores ] : e.start < e.end }

\* The subsets of S of at most k elements.
RECURSIVE SubsetsUpTo(_, _)
SubsetsUpTo(S, k) ==
    IF k = 0 THEN { {} }
    ELSE LET smaller == SubsetsUpTo(S, k - 1)
         IN  smaller \cup { T \cup { e } : T \in smaller, e \in S }

\* if PII is detected: local LLM; if no PII: the remote provider.
routeTarget_alwaysRemote(hasPII) == "remote"

routeTarget(hasPII) == IF hasPII THEN "local" ELSE "remote"

\* catch (error) { return respondDetectionError(c) }
onDetectionError_failOpen == "continueWithoutEntities"

onDetectionError == "respondDetectionError"

hasPII == \E i \in DOMAIN det : det[i].entities # {}

\* Per part: resolveConflicts over the entities the detector returned for
\* it. The lists of resolved entities the first k parts can get.
RECURSIVE resolveParts(_, _)
resolveParts(k, skipRemoved) ==
    IF k = 0 THEN { <<>> }
    ELSE { Append(parts, part) :
             parts \in resolveParts(k - 1, skipRemoved),
             part \in resolutions(det[k].entities, skipRemoved) }

resolveAll(skipRemoved) == resolveParts(Len(request), skipRemoved)

\* maskPII(request, detection, extractor): the spans of the request are
\* masked with the detected entities on a fresh context and applied back.
\* detection maps a part index to its resolved entities; the extractor is
\* extractTexts with applyMasked.
maskPII(req, detection) ==
    LET r == maskSpans(extractTexts(req), detection, createContext)
    IN  [ request |-> applyMasked(req, r.maskedSpans), context |-> r.context ]

\* maskSecrets(request, context): the secret scanner runs over the spans of
\* the request it is given, and what it finds is masked on the context it is
\* given.
maskSecrets(req, context) ==
    LET secrets == [ i \in 1..Len(req) |-> inStartOrder(scanSecrets(req[i].text)) ]
        r == maskSpans(extractTexts(req), secrets, context)
    IN  [ request |-> applyMasked(req, r.maskedSpans), context |-> r.context ]

OrchInit ==
    /\ CtxIdle
    /\ StreamIdle
    /\ UnmaskIdle
    /\ SetupIdle
    /\ ResolverIdle
    /\ config \in [ mode : { "mask", "route" }, enabled : BOOLEAN,
                    show_markers : BOOLEAN ]
    /\ request \in Requests
    /\ det = [ i \in DOMAIN request |-> [ state |-> "none", entities |-> {} ] ]
    /\ completed = <<>>
    /\ opc = "received"
    /\ mctx = createContext
    /\ resolved = <<>>
    /\ dispatched = [ target |-> "none", request |-> <<>> ]
    /\ clientResponse = [ status |-> "none", body |-> <<>> ]

OrchFrame ==
    /\ UNCHANGED streamVars
    /\ UNCHANGED unmaskVars
    /\ UNCHANGED setupVars
    /\ UNCHANGED ctxVars
    /\ UNCHANGED resolverVars

\* Detection starts: skipped when pii_detection.enabled is false, otherwise
\* one analyzer call per span with a non-empty text, all in flight together.
StartDetection ==
    /\ opc = "received"
    /\ IF ~ config.enabled
       THEN /\ opc' = "detected"
            /\ UNCHANGED det
       ELSE /\ opc' = "detecting"
            /\ det' = [ i \in DOMAIN request |->
                          IF request[i].type = "text" /\ request[i].text # <<>>
                          THEN [ state |-> "pending", entities |-> {} ]
                          ELSE det[i] ]
    /\ UNCHANGED <<config, request, completed, mctx, resolved, dispatched, clientResponse>>
    /\ OrchFrame

\* The analyzer answers the call for part i.
DetectorReturns(i, found) ==
    /\ opc \in { "detecting", "error" }
    /\ det[i].state = "pending"
    /\ det' = [ det EXCEPT ![i] = [ state |-> "ok", entities |-> found ] ]
    /\ completed' = Append(completed, i)
    /\ UNCHANGED <<config, request, opc, mctx, resolved, dispatched, clientResponse>>
    /\ OrchFrame

\* The call for part i fails (unavailable, or a malformed answer): the
\* awaited detection rejects and the catch branch runs.
DetectorFails(i) ==
    /\ opc \in { "detecting", "error" }
    /\ det[i].state = "pending"
    /\ IF opc = "error"
       THEN /\ det' = [ det EXCEPT ![i].state = "failed" ]
            /\ UNCHANGED <<opc, clientResponse>>
       ELSE IF onDetectionError = "respondDetectionError"
       THEN /\ det' = [ det EXCEPT ![i].state = "failed" ]
            /\ opc' = "error"
            /\ clientResponse' = [ status |-> "detection_error", body |-> <<>> ]
       ELSE /\ det' = [ k \in DOMAIN det |->
                          [ state |-> IF k = i THEN "failed" ELSE det[k].state,
                            entities |-> {} ] ]
            /\ opc' = "detected"
            /\ UNCHANGED clientResponse
    /\ completed' = Append(completed, i)
    /\ UNCHANGED <<config, request, mctx, resolved, dispatched>>
    /\ OrchFrame

\* Every call has answered: detection resolves.
DetectionDone ==
    /\ opc = "detecting"
    /\ \A i \in DOMAIN det : det[i].state \in { "none", "ok" }
    /\ opc' = "detected"
    /\ UNCHANGED <<config, request, det, completed, mctx, resolved, dispatched,
                   clientResponse>>
    /\ OrchFrame

\* Route mode: the original request goes to the local or the remote provider.
\* Mask mode: the PII layer masks the detected entities of the request, the
\* secrets layer then masks the request the PII layer returned, on the same
\* context, and the result goes to the remote provider.
Dispatch ==
    /\ opc = "detected"
    /\ IF config.mode = "route"
       THEN /\ dispatched' = [ target |-> routeTarget(hasPII), request |-> request ]
            /\ UNCHANGED <<mctx, resolved>>
       ELSE /\ \E skipRemoved \in BOOLEAN : resolved' \in resolveAll(skipRemoved)
            /\ LET piiResult == maskPII(request, resolved')
                   secretsResult == maskSecrets(piiResult.request, piiResult.context)
               IN  /\ dispatched' = [ target  |-> "remote",
                                      request |-> secretsResult.request ]
                   /\ mctx' = secretsResult.context
    /\ opc' = "dispatched"
    /\ UNCHANGED <<config, request, det, completed, clientResponse>>
    /\ OrchFrame

\* The provider answers with the texts it was sent; the response is unmasked
\* with the request's context and returned to the client.
Respond ==
    /\ opc = "dispatched"
    /\ clientResponse' =
          [ status |-> "ok",
            body   |-> unmaskResponse(
                          [ i \in 1..Len(dispatched.request) |-> dispatched.request[i].text ],
                          mctx,
                          [ show_markers |-> config.show_markers,
                            marker_text  |-> marker_text ]) ]
    /\ opc' = "responded"
    /\ UNCHANGED <<config, request, det, completed, mctx, resolved, dispatched>>
    /\ OrchFrame

OrchNext ==
    \/ StartDetection
    \/ \E i \in { k \in DOMAIN det : det[k].state = "pending" } :
          \E found \in SubsetsUpTo(DetectableIn(request[i].text), MaxDetected) :
              DetectorReturns(i, found)
    \/ \E i \in { k \in DOMAIN det : det[k].state = "pending" } : DetectorFails(i)
    \/ DetectionDone
    \/ Dispatch
    \/ Respond

SpecOrch == OrchInit /\ [][OrchNext]_vars

----------------------------------------------------------------------------
(* Stream transformer: buffering of partial placeholders *)

\* Safe-prefix detection: the last "[[" of the combined text; when it has no
\* "]]" after it the partial placeholder starts there, otherwise -1.
findPartialPlaceholderStart(combined) ==
    LET lastOpenIdx == lastIndexOf(combined, OPEN)
    IN  IF lastOpenIdx = -1 THEN -1
        ELSE IF indexOfFrom(combined, CLOSE, lastOpenIdx) # -1 THEN -1
        ELSE lastOpenIdx

\* The context the streamed response is unmasked with.
StreamContext ==
    [ mapping        |-> (PII_PLACEHOLDER_FORMAT(PERSON, 1) :> <<"b", "o">>),
      reverseMapping |-> (<<"b", "o">> :> PII_PLACEHOLDER_FORMAT(PERSON, 1)),
      counters       |-> (PERSON :> 1) ]

\* Pieces upstream texts are built from: plain text, a placeholder the
\* context issued, a placeholder-shaped token it did not issue, stray
\* brackets, a line feed.
Segments ==
    { <<"a">>,
      PII_PLACEHOLDER_FORMAT(PERSON, 1),
      PII_PLACEHOLDER_FORMAT(PERSON, 2),
      <<"[">>,
      <<"]">>,
      <<NL>> }

MaxSegments == 3

RECURSIVE Flatten(_)
Flatten(ss) == IF ss = <<>> THEN <<>> ELSE Head(ss) \o Flatten(Tail(ss))

StreamTexts ==
    { Flatten(ss) : ss \in UNION { [1..n -> Segments] : n \in 1..MaxSegments } }

StreamInit ==
    /\ CtxIdle
    /\ ResolverIdle
    /\ OrchIdle
    /\ FramesIdle
    /\ UnmaskIdle
    /\ SetupIdle
    /\ stream \in StreamTexts
    /\ pos = 0
    /\ buffer = <<>>
    /\ output = <<>>
    /\ emitted = <<>>
    /\ spc = "reading"
    /\ fed = <<>>
    /\ upstream = "open"
    /\ client = "connected"

\* One iteration of `for (const chunk of streamChunks)`: the chunk is the next
\* n characters of the upstream text; n is 0 for an empty chunk, which is
\* yielded for like any other.
StreamChunk(n) ==
    /\ spc = "reading"
    /\ pos + n <= Len(stream)
    /\ LET chunk == slice(stream, pos, pos + n)
           combined == buffer \o chunk
           partialStart == findPartialPlaceholderStart(combined)
       IN  /\ IF partialStart = -1
              THEN /\ output' = unmask(combined, StreamContext, MaskingDefaults)
                   /\ fed' = fed \o combined
                   /\ buffer' = <<>>
              ELSE /\ output' = unmask(slice(combined, 0, partialStart), StreamContext, MaskingDefaults)
                   /\ fed' = fed \o slice(combined, 0, partialStart)
                   /\ buffer' = slice(combined, partialStart, Len(combined))
           /\ emitted' = emitted \o output'
    /\ pos' = pos + n
    /\ UNCHANGED <<stream, spc, upstream, client>>
    /\ UNCHANGED frameVars
    /\ UNCHANGED unmaskVars
    /\ UNCHANGED setupVars
    /\ UNCHANGED ctxVars
    /\ UNCHANGED resolverVars
    /\ UNCHANGED orchVars

\* A transformer that ends without the final flush.
finalFlush_dropped(carry) == [ fed |-> <<>>, out |-> <<>> ]

\* `yield unmask(buffer)`: what the final flush hands to unmask and yields.
finalFlush(carry) == [ fed |-> carry, out |-> unmask(carry, StreamContext, MaskingDefaults) ]

\* The loop is over (upstream EOF, or the [DONE] sentinel was the last
\* event): the final flush at end of stream. The statement yields and
\* assigns nothing: the variable buffer keeps the carried text.
StreamFlush ==
    /\ spc = "reading"
    /\ pos = Len(stream)
    /\ output' = finalFlush(buffer).out
    /\ fed' = fed \o finalFlush(buffer).fed
    /\ emitted' = emitted \o output'
    /\ spc' = "done"
    /\ upstream' = "ended"
    /\ UNCHANGED <<stream, pos, buffer, client>>
    /\ UNCHANGED frameVars
    /\ UNCHANGED unmaskVars
    /\ UNCHANGED setupVars
    /\ UNCHANGED ctxVars
    /\ UNCHANGED resolverVars
    /\ UNCHANGED orchVars

\* The upstream fails mid-stream: reading the next chunk throws. The loop
\* has no try/catch, so the exception leaves the generator: nothing more is
\* yielded, the final flush is not reached, the carried text stays where it
\* is.
StreamError ==
    /\ spc = "reading"
    /\ spc' = "aborted"
    /\ upstream' = "failed"
    /\ UNCHANGED <<stream, pos, buffer, output, emitted, fed, client>>
    /\ UNCHANGED frameVars
    /\ UNCHANGED unmaskVars
    /\ UNCHANGED setupVars
    /\ UNCHANGED ctxVars
    /\ UNCHANGED resolverVars
    /\ UNCHANGED orchVars

\* A transformer that ignores the disconnect and keeps reading.
onClientDisconnect_drain(position, source) ==
    [ spc |-> position, upstream |-> source ]

\* The client is gone: stop consuming and cancel the upstream.
onClientDisconnect(position, source) ==
    [ spc |-> "cancelled", upstream |-> "cancelled" ]

\* The client disconnects while the stream is being read.
ClientDisconnect ==
    /\ spc = "reading"
    /\ client = "connected"
    /\ client' = "disconnected"
    /\ spc' = onClientDisconnect(spc, upstream).spc
    /\ upstream' = onClientDisconnect(spc, upstream).upstream
    /\ UNCHANGED <<stream, pos, buffer, output, emitted, fed>>
    /\ UNCHANGED frameVars
    /\ UNCHANGED unmaskVars
    /\ UNCHANGED setupVars
    /\ UNCHANGED ctxVars
    /\ UNCHANGED resolverVars
    /\ UNCHANGED orchVars

StreamNext ==
    \/ \E n \in 0..Len(stream) : StreamChunk(n)
    \/ StreamFlush
    \/ StreamError
    \/ ClientDisconnect

SpecStream == StreamInit /\ [][StreamNext]_vars

----------------------------------------------------------------------------
(* Stream transformer, layer 1: the SSE re-framer *)

\* A frame is a sequence of lines terminated by a blank line.
FrameTerminator == <<NL, NL>>

\* A re-framer that emits whatever it holds, terminated or not.
splitFrames_eager(text) ==
    [ complete |-> IF text = <<>> THEN <<>> ELSE <<text>>, rest |-> <<>> ]

\* The complete frames at the head of the buffer, each up to and including
\* its terminator, and the trailing partial frame.
RECURSIVE splitFrames(_)
splitFrames(text) ==
    LET t == indexOfFrom(text, FrameTerminator, 0)
    IN  IF t = -1 THEN [ complete |-> <<>>, rest |-> text ]
        ELSE LET tail == splitFrames(slice(text, t + 2, Len(text)))
             IN  [ complete |-> <<slice(text, 0, t + 2)>> \o tail.complete,
                   rest     |-> tail.rest ]

ByteChars == { "d", NL }
MaxBytes == 6
ByteStreams == UNION { [1..n -> ByteChars] : n \in 1..MaxBytes }

FramesInit ==
    /\ CtxIdle
    /\ ResolverIdle
    /\ OrchIdle
    /\ TextIdle
    /\ UnmaskIdle
    /\ SetupIdle
    /\ bytes \in ByteStreams
    /\ bpos = 0
    /\ upstream_buffer = <<>>
    /\ frames = <<>>
    /\ fpc = "reading"

\* The next n bytes arrive: every frame they complete is emitted, in order.
FrameChunk(n) ==
    /\ fpc = "reading"
    /\ bpos + n <= Len(bytes)
    /\ LET split == splitFrames(upstream_buffer \o slice(bytes, bpos, bpos + n))
       IN  /\ frames' = frames \o [ k \in 1..Len(split.complete) |->
                                      [ bytes |-> split.complete[k], at |-> "chunk" ] ]
           /\ upstream_buffer' = split.rest
    /\ bpos' = bpos + n
    /\ UNCHANGED <<bytes, fpc>>
    /\ UNCHANGED textVars
    /\ UNCHANGED unmaskVars
    /\ UNCHANGED setupVars
    /\ UNCHANGED ctxVars
    /\ UNCHANGED resolverVars
    /\ UNCHANGED orchVars

\* Upstream EOF: the final flush emits the residual buffer as it is.
FrameEOF ==
    /\ fpc = "reading"
    /\ bpos = Len(bytes)
    /\ frames' = IF upstream_buffer = <<>> THEN frames
                 ELSE Append(frames, [ bytes |-> upstream_buffer, at |-> "eof" ])
    /\ upstream_buffer' = <<>>
    /\ fpc' = "done"
    /\ UNCHANGED <<bytes, bpos>>
    /\ UNCHANGED textVars
    /\ UNCHANGED unmaskVars
    /\ UNCHANGED setupVars
    /\ UNCHANGED ctxVars
    /\ UNCHANGED resolverVars
    /\ UNCHANGED orchVars

FramesNext ==
    \/ \E n \in 1..Len(bytes) : FrameChunk(n)
    \/ FrameEOF

SpecFrames == FramesInit /\ [][FramesNext]_vars

----------------------------------------------------------------------------
(* Response unmasking: one call of unmask *)

\* A context that issued two tokens.
TwoTokenContext ==
    [ mapping        |-> (PII_PLACEHOLDER_FORMAT(PERSON, 1) :> <<"b", "o">>)
                         @@ (PII_PLACEHOLDER_FORMAT(PERSON, 2) :> <<"a">>),
      reverseMapping |-> (<<"b", "o">> :> PII_PLACEHOLDER_FORMAT(PERSON, 1))
                         @@ (<<"a">> :> PII_PLACEHOLDER_FORMAT(PERSON, 2)),
      counters       |-> (PERSON :> 2) ]

\* The contexts a response is unmasked with: the empty one, one that issued
\* [[P_1]], one that issued [[P_1]] and [[P_2]].
UnmaskContexts == { createContext, StreamContext, TwoTokenContext }

\* The responses handed to unmask: the pieces of the streamed texts and an
\* opening bracket pair.
ResponseSegments == Segments \cup { OPEN }

ResponseTexts ==
    { Flatten(ss) : ss \in UNION { [1..n -> ResponseSegments] : n \in 1..MaxSegments } }

UnmaskInit ==
    /\ CtxIdle
    /\ StreamIdle
    /\ ResolverIdle
    /\ OrchIdle
    /\ SetupIdle
    /\ uText \in ResponseTexts
    /\ uContext \in UnmaskContexts
    /\ uConfig \in MaskingConfig
    /\ uOut = <<>>
    /\ upc = "called"

\* unmask(text, context, config) returns.
UnmaskCall ==
    /\ upc = "called"
    /\ uOut' = unmask(uText, uContext, uConfig)
    /\ upc' = "returned"
    /\ UNCHANGED <<uText, uContext, uConfig>>
    /\ UNCHANGED streamVars
    /\ UNCHANGED setupVars
    /\ UNCHANGED ctxVars
    /\ UNCHANGED resolverVars
    /\ UNCHANGED orchVars

UnmaskNext == UnmaskCall

SpecUnmask == UnmaskInit /\ [][UnmaskNext]_vars

----------------------------------------------------------------------------
(* Setup script: main() of setup.js, in its two versions *)

\* The two versions of the script in the repository: scripts/setup.js, whose
\* main() exits when Podman is missing, and the one that installs Podman.
Scripts == { "exitWithoutPodman", "installPodman" }
Platforms == { "win32", "darwin", "linux" }

\* What /etc/os-release names; "" when it cannot be read.
Distros == { "ubuntu", "debian", "fedora", "rhel", "arch", "other", "" }

\* The distributions installPodman has an install command for.
hasInstallCmd(distro) == distro \in { "ubuntu", "debian", "fedora", "rhel", "arch" }

Machines ==
    [ script : Scripts, platform : Platforms, distro : Distros,
      bun : BOOLEAN, podman : BOOLEAN, choco : BOOLEAN ]

SetupInit ==
    /\ CtxIdle
    /\ StreamIdle
    /\ UnmaskIdle
    /\ ResolverIdle
    /\ OrchIdle
    /\ env \in { m \in Machines : m.platform # "linux" => m.distro = "" }
    /\ pc = "checkBun"
    /\ exitCode = -1
    /\ trace = << "Checking dependencies" >>
    /\ ready = {}

SetupFrame ==
    /\ UNCHANGED env
    /\ UNCHANGED streamVars
    /\ UNCHANGED unmaskVars
    /\ UNCHANGED ctxVars
    /\ UNCHANGED resolverVars
    /\ UNCHANGED orchVars

\* process.exit(1)
exit1 ==
    /\ pc' = "exited"
    /\ exitCode' = 1

\* if (!checkCommandExists("bun"))
CheckBun ==
    /\ pc = "checkBun"
    /\ pc' = IF env.bun THEN "bunVersion" ELSE "installBun"
    /\ UNCHANGED <<exitCode, trace, ready>>
    /\ SetupFrame

\* installBun(): the install command succeeds, or throws and the process
\* exits.
InstallBun(ok) ==
    /\ pc = "installBun"
    /\ IF ok
       THEN /\ pc' = "checkPodman"
            /\ trace' = Append(trace, "Bun installed successfully")
            /\ ready' = ready \cup { "bun" }
            /\ UNCHANGED exitCode
       ELSE /\ exit1
            /\ trace' = Append(trace, "Failed to install Bun")
            /\ UNCHANGED ready
    /\ SetupFrame

\* execSync("bun --version"): a throw rejects main() and the catch handler
\* exits.
BunVersion(ok) ==
    /\ pc = "bunVersion"
    /\ IF ok
       THEN /\ pc' = "checkPodman"
            /\ trace' = Append(trace, "Bun found")
            /\ ready' = ready \cup { "bun" }
            /\ UNCHANGED exitCode
       ELSE /\ exit1
            /\ trace' = Append(trace, "Error")
            /\ UNCHANGED ready
    /\ SetupFrame

\* if (!checkCommandExists("podman")): one version exits, the other calls
\* installPodman().
CheckPodman ==
    /\ pc = "checkPodman"
    /\ IF env.podman
       THEN /\ pc' = "allReady"
            /\ trace' = Append(trace, "Podman found")
            /\ ready' = ready \cup { "podman" }
            /\ UNCHANGED exitCode
       ELSE IF env.script = "exitWithoutPodman"
       THEN /\ exit1
            /\ trace' = Append(trace, "Podman not found")
            /\ UNCHANGED ready
       ELSE /\ pc' = "installPodman"
            /\ trace' = Append(trace, "Podman not found. Installing")
            /\ UNCHANGED <<exitCode, ready>>
    /\ SetupFrame

\* installPodman() up to its install command: Chocolatey first on Windows;
\* on a Linux distribution it has no command for it prints the instructions
\* and returns.
InstallPodman ==
    /\ pc = "installPodman"
    /\ IF env.platform = "win32"
       THEN /\ pc' = IF env.choco THEN "execInstallPodman" ELSE "installChocolatey"
            /\ UNCHANGED trace
       ELSE IF env.platform = "darwin" \/ hasInstallCmd(env.distro)
       THEN /\ pc' = "execInstallPodman"
            /\ UNCHANGED trace
       ELSE /\ pc' = "allReady"
            /\ trace' = Append(trace, "Installation Instructions")
    /\ UNCHANGED <<exitCode, ready>>
    /\ SetupFrame

\* installChocolatey()
InstallChocolatey(ok) ==
    /\ pc = "installChocolatey"
    /\ IF ok
       THEN /\ pc' = "execInstallPodman"
            /\ trace' = Append(trace, "Chocolatey installed successfully")
            /\ UNCHANGED exitCode
       ELSE /\ exit1
            /\ trace' = Append(trace, "Failed to install Chocolatey")
    /\ UNCHANGED ready
    /\ SetupFrame

\* installPodman(): execSync(installCmd); the catch block prints the failure
\* and the installation instructions, and exits.
ExecInstallPodman(ok) ==
    /\ pc = "execInstallPodman"
    /\ IF ok
       THEN /\ pc' = "allReady"
            /\ trace' = Append(trace, "Podman installed successfully")
            /\ ready' = ready \cup { "podman" }
            /\ UNCHANGED exitCode
       ELSE /\ exit1
            /\ trace' = trace \o << "Failed to install Podman",
                                    "Installation Instructions" >>
            /\ UNCHANGED ready
    /\ SetupFrame

\* console.log("All dependencies ready!"); startServices()
AllReady ==
    /\ pc = "allReady"
    /\ pc' = "startServices"
    /\ trace' = Append(trace, "All dependencies ready")
    /\ UNCHANGED <<exitCode, ready>>
    /\ SetupFrame

\* startServices(): execSync("podman compose up presidio-analyzer -d")
ComposeUp(ok) ==
    /\ pc = "startServices"
    /\ IF ok
       THEN /\ pc' = "spawn"
            /\ trace' = trace \o << "Starting services", "podman compose up" >>
            /\ UNCHANGED exitCode
       ELSE /\ exit1
            /\ trace' = trace \o << "Starting services", "Failed to start Podman" >>
    /\ UNCHANGED ready
    /\ SetupFrame

\* startServices(): spawn("bun", ["run", "--hot", "src/index.ts"])
SpawnDevServer ==
    /\ pc = "spawn"
    /\ pc' = "serving"
    /\ trace' = Append(trace, "spawn bun")
    /\ UNCHANGED <<exitCode, ready>>
    /\ SetupFrame

SetupNext ==
    \/ CheckBun
    \/ \E ok \in BOOLEAN : InstallBun(ok)
    \/ \E ok \in BOOLEAN : BunVersion(ok)
    \/ CheckPodman
    \/ InstallPodman
    \/ \E ok \in BOOLEAN : InstallChocolatey(ok)
    \/ \E ok \in BOOLEAN : ExecInstallPodman(ok)
    \/ AllReady
    \/ \E ok \in BOOLEAN : ComposeUp(ok)
    \/ SpawnDevServer

SpecSetup == SetupInit /\ [][SetupNext]_vars

----------------------------------------------------------------------------
(* Claims on the placeholder context *)

Inverses(context) ==
    /\ \A t \in DOMAIN context.mapping :
          /\ context.mapping[t] \in DOMAIN context.reverseMapping
          /\ context.reverseMapping[context.mapping[t]] = t
    /\ \A o \in DOMAIN context.reverseMapping :
          /\ context.reverseMapping[o] \in DOMAIN context.mapping
          /\ context.mapping[context.reverseMapping[o]] = o

\* C3: after any sequence of allocate and merge operations the forward and
\* the reverse mapping of the context are exact inverses, and lookup of every
\* token allocate(cat, s) returned is s.
C3_Bijection ==
    /\ Inverses(ctx)
    /\ \A k \in DOMAIN returned :
          lookup(ctx, returned[k]) = [ present |-> TRUE, original |-> k[2] ]

\* C4: once allocate(cat, s) has returned t, every later allocate(cat, s) on
\* the context returns t again and changes neither a counter nor a mapping,
\* whatever was called in between.
C4_AllocateIdempotent ==
    \A k \in DOMAIN returned :
        /\ allocate(ctx, k[1], k[2]).token = returned[k]
        /\ allocate(ctx, k[1], k[2]).context = ctx

\* C4 witness: an original was allocated, then other originals, and the first
\* is allocated again (three calls, two distinct tokens issued).
C4_Witness ==
    /\ calls.this = 3
    /\ Cardinality(DOMAIN ctx.mapping) = 2
    /\ Cardinality(DOMAIN returned) = 2

\* C5: per category the numbers of the newly issued tokens are 1, 2, 3, ...
\* in order of issue, and two distinct originals never hold the same token.
C5_SequenceNumbers ==
    /\ \A c \in Categories : \A k \in 1..Len(issuedN[c]) : issuedN[c][k] = k
    /\ \A o1, o2 \in DOMAIN ctx.reverseMapping :
          o1 # o2 => ctx.reverseMapping[o1] # ctx.reverseMapping[o2]

----------------------------------------------------------------------------
(* Claims on the conflict resolver *)

\* C6: for every entity list the output of resolveConflicts is pairwise
\* disjoint (no two retained intervals share a position) and sorted by start.
C6_DisjointSorted ==
    rpc = "resolved" =>
        /\ \A i, j \in 1..Len(rOut) : i # j => ~ overlaps(rOut[i], rOut[j])
        /\ \A i, j \in 1..Len(rOut) : i < j => rOut[i].start <= rOut[j].start

\* C6 witness: the input held two overlapping entities of different types
\* and a third one, and two intervals are retained.
C6_Witness ==
    /\ rpc = "resolved"
    /\ Len(rOut) = 2
    /\ \E a, b \in rIn :
          /\ a.entity_type # b.entity_type
          /\ overlaps(a, b)

----------------------------------------------------------------------------
(* Claims on masking and request handling *)

TextParts == { i \in DOMAIN request : request[i].type = "text" }

originalOf(i, e) == slice(request[i].text, e.start, e.end)

\* The token the request's context holds for an original, <<>> when none.
tokenFor(original) ==
    IF original \in DOMAIN mctx.reverseMapping
    THEN mctx.reverseMapping[original] ELSE <<>>

\* The original is a contiguous part of some whitelist entry (the whole
\* entry included).
partOfWhitelistEntry(o) ==
    \E w \in Whitelist : \E j \in 0..Len(w) : startsWithAt(w, o, j)

\* What stands for the k-th resolved entity of part i in the masked text.
replacementOf(i, k) ==
    LET o == originalOf(i, resolved[i][k])
    IN  IF partOfWhitelistEntry(o) THEN o ELSE tokenFor(o)

\* Where the k-th resolved entity of part i starts after the PII layer: its
\* start, shifted by what the replacements before it added or removed.
RECURSIVE shiftBefore(_, _)
shiftBefore(i, k) ==
    IF k <= 1 THEN 0
    ELSE shiftBefore(i, k - 1)
         + Len(replacementOf(i, k - 1))
         - (resolved[i][k - 1].end - resolved[i][k - 1].start)

\* The text of part i after the PII layer: the text of the request with each
\* resolved entity, from the k-th on, replaced by what stands for it.
RECURSIVE piiMaskedFrom(_, _, _)
piiMaskedFrom(i, k, cursor) ==
    IF k > Len(resolved[i])
    THEN slice(request[i].text, cursor, Len(request[i].text))
    ELSE slice(request[i].text, cursor, resolved[i][k].start)
         \o replacementOf(i, k)
         \o piiMaskedFrom(i, k + 1, resolved[i][k].end)

piiMaskedText(i) == piiMaskedFrom(i, 1, 0)

\* The secrets the secrets layer finds in part i, and the text of one.
secretsOf(i) == scanSecrets(piiMaskedText(i))

secretOriginal(i, s) == slice(piiMaskedText(i), s.start, s.end)

\* What the secrets layer adds or removes before position p of the text the
\* PII layer returned for part i.
RECURSIVE secretShift(_, _, _)
secretShift(i, secrets, p) ==
    IF secrets = {} THEN 0
    ELSE LET s == CHOOSE x \in secrets : TRUE
         IN  (IF s.end <= p
              THEN Len(tokenFor(secretOriginal(i, s))) - (s.end - s.start)
              ELSE 0)
             + secretShift(i, secrets \ {s}, p)

\* Where the k-th resolved entity of part i starts in the dispatched text.
positionOf(i, k) ==
    LET p == resolved[i][k].start + shiftBefore(i, k)
    IN  p + secretShift(i, secretsOf(i), p)

\* The originals of the entities of the request that the two layers mask:
\* the resolved entities and the secrets.
retainedOriginals ==
    { originalOf(p[1], resolved[p[1]][p[2]]) :
        p \in { q \in TextParts \X (1..MaxRequestChars) : q[2] <= Len(resolved[q[1]]) } }
    \cup UNION { { secretOriginal(i, s) : s \in secretsOf(i) } : i \in TextParts }

\* A text holds no placeholder-shaped literal: no "[[" with a later "]]".
noPlaceholderLiteral(text) ==
    \A i \in occurrences(text, OPEN) : indexOfFrom(text, CLOSE, i + 2) = -1

\* C2: round trip. For a request whose texts hold no placeholder-shaped
\* literal, and any detected entities, unmasking the masked request with the
\* context masking returned gives the texts of the request back (markers
\* off).
C2_RoundTrip ==
    ( /\ config.mode = "mask"
      /\ ~ config.show_markers
      /\ opc = "responded"
      /\ \A i \in TextParts : noPlaceholderLiteral(request[i].text) )
        => \A i \in DOMAIN request : clientResponse.body[i] = request[i].text

\* C7: an entity whose original is a whitelist entry is emitted verbatim,
\* no token is allocated for it and no counter moves: no value of the
\* forward mapping is a whitelist entry, every counter step made a mapping
\* entry, and the counters count no more than the originals that are no
\* whitelist entry.
C7_WhitelistRespect ==
    (config.mode = "mask" /\ dispatched.target # "none") =>
        /\ \A t \in DOMAIN mctx.mapping : mctx.mapping[t] \notin Whitelist
        /\ \A i \in TextParts : \A k \in 1..Len(resolved[i]) :
              originalOf(i, resolved[i][k]) \in Whitelist =>
                  startsWithAt(dispatched.request[i].text,
                               originalOf(i, resolved[i][k]),
                               positionOf(i, k))
        /\ counterOf(mctx, PERSON) + counterOf(mctx, EMAIL_ADDRESS)
             + counterOf(mctx, API_KEY)
           = Cardinality(DOMAIN mctx.mapping)
        /\ Cardinality(DOMAIN mctx.mapping)
             <= Cardinality(retainedOriginals \ Whitelist)

\* C7 witness: a masked request whose only entity is a whitelist entry; it
\* went out verbatim and the context is as fresh as before.
C7_Witness ==
    /\ config.mode = "mask"
    /\ dispatched.target = "remote"
    /\ \E i \in TextParts :
          /\ Len(resolved[i]) = 1
          /\ originalOf(i, resolved[i][1]) \in Whitelist
          /\ dispatched.request[i].text = request[i].text
    /\ mctx = createContext

\* C8: fail closed. Once a detector call of the request has failed, nothing
\* is or was dispatched to any provider and the client has the error.
C8_FailClosed ==
    (\E i \in DOMAIN det : det[i].state = "failed") =>
        /\ dispatched.target = "none"
        /\ opc = "error"
        /\ clientResponse.status = "detection_error"

\* C8 witness: of two concurrent calls one failed and the other answered
\* with an entity.
C8_Witness ==
    \E i, j \in DOMAIN det :
        /\ det[i].state = "failed"
        /\ det[j].state = "ok"
        /\ det[j].entities # {}

\* C9: in mask mode what goes to the provider goes to the remote
\* one, has the parts of the request, and holds, where each retained entity
\* whose text is no whitelist entry stood, the placeholder the context maps
\* to its original.
C9_MaskedDispatch ==
    (config.mode = "mask" /\ dispatched.target # "none") =>
        /\ dispatched.target = "remote"
        /\ Len(dispatched.request) = Len(request)
        /\ \A i \in TextParts : \A k \in 1..Len(resolved[i]) :
              LET o == originalOf(i, resolved[i][k])
                  p == positionOf(i, k)
              IN  o \notin Whitelist =>
                    /\ tokenFor(o) # <<>>
                    /\ startsWithAt(dispatched.request[i].text, tokenFor(o), p)
                    /\ placeholderEndAt(dispatched.request[i].text, p)
                         = p + Len(tokenFor(o))
                    /\ lookup(mctx, tokenFor(o)) = [ present |-> TRUE, original |-> o ]

\* C10: in route mode the request goes to the local provider exactly when
\* the detector found an entity, otherwise to the remote one; what is
\* dispatched is the original request and the context stays empty.
C10_RouteMode ==
    config.mode = "route" =>
        /\ mctx = createContext
        /\ dispatched.target # "none" =>
              /\ dispatched.target = (IF hasPII THEN "local" ELSE "remote")
              /\ dispatched.request = request

\* C10 witness: a request with a detected entity was routed to the local
\* provider and answered.
C10_Witness ==
    /\ config.mode = "route"
    /\ opc = "responded"
    /\ dispatched.target = "local"
    /\ hasPII

----------------------------------------------------------------------------
(* Claims on the stream transformer *)

\* C1: stream safety. For an upstream text holding only complete
\* placeholders, and any chunking of it, the concatenation of everything the
\* transformer yields, final flush included, equals unmask of the whole text.
C1_StreamSafety ==
    (spc = "done" /\ OnlyCompletePlaceholders(stream))
        => emitted = unmask(stream, StreamContext, MaskingDefaults)

----------------------------------------------------------------------------
(* Claims on routing of secrets *)

\* The secret scanner finds an entity in some text part of the request.
secretsFound == \E i \in TextParts : scanSecrets(request[i].text) # {}

\* C11: in route mode no request in which the detector or the secret scanner
\* found an entity is dispatched to the remote provider.
C11_RouteNoLeak ==
    (config.mode = "route" /\ dispatched.target = "remote")
        => (~ hasPII /\ ~ secretsFound)

----------------------------------------------------------------------------
(* Claims on the SSE re-framer *)

\* The bytes of the frames emitted so far, in emission order.
RECURSIVE frameBytes(_)
frameBytes(fs) == IF fs = <<>> THEN <<>> ELSE Head(fs).bytes \o frameBytes(Tail(fs))

\* A complete frame: it ends with its terminator and holds no other.
isCompleteFrame(f) ==
    /\ Len(f) >= 2
    /\ indexOfFrom(f, FrameTerminator, 0) = Len(f) - 2

\* C12: frames are emitted in upstream order (the emitted bytes followed by
\* the retained buffer are the bytes received), every frame emitted before
\* EOF is a whole frame with its terminating blank line, and only the last
\* emission, at EOF, may be an unterminated residue.
C12_FrameOrder ==
    fpc # "idle" =>
        /\ frameBytes(frames) \o upstream_buffer = slice(bytes, 0, bpos)
        /\ \A k \in 1..Len(frames) :
              \/ frames[k].at = "chunk" /\ isCompleteFrame(frames[k].bytes)
              \/ /\ frames[k].at = "eof"
                 /\ k = Len(frames)
                 /\ fpc = "done"
                 /\ indexOfFrom(frames[k].bytes, FrameTerminator, 0) = -1

\* C12 witness: two complete frames were emitted while reading and an
\* unterminated residue at EOF.
C12_Witness ==
    /\ fpc = "done"
    /\ Len(frames) = 3
    /\ frames[1].at = "chunk"
    /\ frames[2].at = "chunk"
    /\ Len(frames[2].bytes) > 2
    /\ frames[3].at = "eof"

----------------------------------------------------------------------------
(* Claims on the text unmasker of the stream transformer *)

\* C13 as stated: flush on termination. No text received is lost: while
\* reading, what was handed on followed by the carry-over is the text
\* received. The step that ends the stream yields the carry-over unchanged,
\* a partial placeholder included, and leaves the carry-over empty with the
\* whole text handed on.
C13_FlushOnTermination ==
    /\ [](spc = "reading" => fed \o buffer = slice(stream, 0, pos))
    /\ [][(upstream = "open" /\ upstream' = "ended") =>
             /\ output' = buffer
             /\ emitted' = emitted \o buffer
             /\ buffer' = <<>>
             /\ fed' = stream]_vars

\* C13 amended: as above, but the step that ends the stream does not touch
\* the carry-over: everything in it has been yielded and the whole text
\* handed on, and the variable keeps the text it held.
C13_FlushYieldsCarryOver ==
    /\ [](spc = "reading" => fed \o buffer = slice(stream, 0, pos))
    /\ [](upstream = "ended" => fed = stream)
    /\ [][(upstream = "open" /\ upstream' = "ended") =>
             /\ output' = buffer
             /\ emitted' = emitted \o buffer
             /\ buffer' = buffer
             /\ fed' = stream]_vars

\* C13 witness: the stream ended while a partial placeholder was held, and
\* the flush yielded it.
C13_Witness ==
    /\ spc = "done"
    /\ upstream = "ended"
    /\ buffer = output
    /\ Len(output) > 2
    /\ startsWithAt(output, OPEN, 0)
    /\ indexOfFrom(output, CLOSE, 0) = -1

----------------------------------------------------------------------------
(* Claims on the order of the conflict resolver's work *)

\* The merged intervals of the detected entities (steps 1 and 2).
mergedIntervals == Range(mergeByType(inStartOrder(rIn)))

\* C14, first half: whatever the order of the input list, steps 1 and 2
\* give the same merged intervals.
C14_MergeOrderIndependent ==
    rpc = "resolved" =>
        \A entities \in ScanOrders(rIn) : Range(mergeByType(entities)) = mergedIntervals

\* C14: the resolver is order-independent. Two calls on the same entities,
\* whatever the order of the input list and the order in which step 3
\* visits the merged intervals, return the same list.
C14_OrderIndependent ==
    rpc = "resolved" => rScan = rOut

\* C14 when step 3 decides every overlapping pair of the merged intervals.
C14_OrderIndependentEveryPair ==
    (rpc = "resolved" /\ rReading = "everyPair") => rScan = rOut

\* C14 when step 3 passes over a pair with an interval already dropped.
C14_OrderIndependentRetainedPairs ==
    (rpc = "resolved" /\ rReading = "retainedPairs") => rScan = rOut

----------------------------------------------------------------------------
(* Claims on the cross-category tie-breaks *)

\* The order of the claim, written out: a comes before b when it has the
\* higher score; on equal score when it is longer; then when it starts
\* earlier; then when its category is lexicographically smaller.
preferred(a, b) ==
    \/ a.score > b.score
    \/ /\ a.score = b.score
       /\ \/ (a.end - a.start) > (b.end - b.start)
          \/ /\ (a.end - a.start) = (b.end - b.start)
             /\ \/ a.start < b.start
                \/ /\ a.start = b.start
                   /\ lexLess(a.entity_type, b.entity_type)

\* Two merged intervals of different categories that overlap.
conflicting(a, b) == a.entity_type # b.entity_type /\ overlaps(a, b)

\* C15 as stated: of any two overlapping merged intervals of different
\* categories exactly one is retained, the preferred one.
C15_TieBreak ==
    rpc = "resolved" =>
        LET M == mergedIntervals
        IN  \A a, b \in M :
                (conflicting(a, b) /\ preferred(a, b)) =>
                    (a \in Range(rOut) /\ b \notin Range(rOut))

\* C15 amended: of any two overlapping merged intervals of different
\* categories at most one is retained; and when the preferred one of the
\* two is itself preferred to every merged interval of a different category
\* that overlaps it, it is retained and the other one is not.
C15_TieBreakAmended ==
    rpc = "resolved" =>
        LET M == mergedIntervals
        IN  \A a, b \in M :
                (conflicting(a, b) /\ preferred(a, b)) =>
                    /\ ~ (a \in Range(rOut) /\ b \in Range(rOut))
                    /\ (\A c \in M : conflicting(a, c) => preferred(a, c)) =>
                          (a \in Range(rOut) /\ b \notin Range(rOut))

\* C15 witness: two intervals of different categories with the same score,
\* length and start were resolved, nothing else overlaps them, and the
\* lexicographically smaller category is the one retained.
C15_Witness ==
    /\ rpc = "resolved"
    /\ Cardinality(mergedIntervals) = 3
    /\ Len(rOut) = 2
    /\ \E a, b \in mergedIntervals :
          /\ conflicting(a, b)
          /\ a.score = b.score /\ a.start = b.start /\ a.end = b.end
          /\ lexLess(a.entity_type, b.entity_type)
          /\ a \in Range(rOut)
          /\ b \notin Range(rOut)

----------------------------------------------------------------------------
(* Claims on touching intervals *)

\* The two intervals share a position.
sharePosition(a, b) == a.start < b.end /\ b.start < a.end

\* The two intervals touch: one ends where the other starts.
touch(a, b) == a.end = b.start \/ b.end = a.start

\* The input entities of the category of m that lie inside m.
mergedInto(m) ==
    { e \in rIn :
        e.entity_type = m.entity_type /\ m.start <= e.start /\ e.end <= m.end }

\* C16: two input entities of one category that overlap or touch lie in one
\* merged interval, whose score is the maximum of the scores merged into it;
\* two merged intervals of different categories that only touch do not
\* conflict: each is retained unless a third one, sharing a position with
\* it, is preferred to it.
C16_Touching ==
    rpc = "resolved" =>
        LET M == mergedIntervals
        IN  /\ \A a, b \in rIn :
                  (a.entity_type = b.entity_type /\ (sharePosition(a, b) \/ touch(a, b))) =>
                      \E m \in M :
                          /\ a \in mergedInto(m)
                          /\ b \in mergedInto(m)
                          /\ m.score = SetMax({ e.score : e \in mergedInto(m) })
                          /\ m.start = SetMin({ e.start : e \in mergedInto(m) })
                          /\ m.end = SetMax({ e.end : e \in mergedInto(m) })
            /\ \A a, b \in M :
                  (a.entity_type # b.entity_type /\ touch(a, b)) =>
                      \/ a \in Range(rOut)
                      \/ \E c \in M \ {b} :
                            /\ c.entity_type # a.entity_type
                            /\ sharePosition(a, c)
                            /\ preferred(c, a)

\* C16 witness: two touching entities of one category with different scores
\* were merged, and the merged interval touches an interval of another
\* category; both are retained.
C16_Witness ==
    /\ rpc = "resolved"
    /\ Len(rOut) = 2
    /\ rOut[1].entity_type # rOut[2].entity_type
    /\ rOut[1].end = rOut[2].start
    /\ \E a, b \in rIn :
          /\ a.entity_type = b.entity_type
          /\ a.end = b.start
          /\ a.score # b.score

----------------------------------------------------------------------------
(* Claims on the safe-prefix step *)

\* A text holds an incomplete placeholder: a "[[" with no "]]" after it, or
\* a trailing "[".
hasIncompletePlaceholder(text) ==
    \/ \E i \in occurrences(text, OPEN) : indexOfFrom(text, CLOSE, i + 2) = -1
    \/ (text # <<>> /\ text[Len(text)] = "[")

\* The length of the longest prefix that holds no incomplete placeholder.
safePrefixLength(text) ==
    SetMax({ k \in 0..Len(text) : ~ hasIncompletePlaceholder(slice(text, 0, k)) })

\* C17: the safe-prefix step. After a chunk is processed, what was yielded
\* is unmask of the longest prefix of carry-over + chunk that holds no
\* incomplete placeholder, the carry-over is the rest, and the carry-over is
\* empty or starts with "[[" (or is a lone "[") and holds no "]]".
C17_SafePrefixStep ==
    [][pos' > pos =>
         LET combined == buffer \o slice(stream, pos, pos')
             safe == safePrefixLength(combined)
         IN  /\ output' = unmask(slice(combined, 0, safe), StreamContext, MaskingDefaults)
             /\ buffer' = slice(combined, safe, Len(combined))
             /\ \/ buffer' = <<>>
                \/ /\ (startsWithAt(buffer', OPEN, 0) \/ buffer' = <<"[">>)
                   /\ indexOfFrom(buffer', CLOSE, 0) = -1]_vars

----------------------------------------------------------------------------
(* Claims on the abnormal ends of a stream *)

\* The frame that tells the client the stream ended in an error.
ErrorTerminator == "event: error"

\* C18: upstream error mid-stream. When the upstream fails after chunks
\* were consumed, everything received up to the carry-over has been yielded
\* (the carry-over holds no safe prefix), the error terminator frame is
\* yielded next, it is the last thing yielded and nothing is yielded after
\* it.
C18_UpstreamError ==
    /\ []((upstream = "failed" /\ pos > 0) =>
            /\ spc = "aborted"
            /\ emitted # <<>>
            /\ emitted[Len(emitted)] = ErrorTerminator
            /\ \A k \in 1..(Len(emitted) - 1) : emitted[k] # ErrorTerminator
            /\ fed \o buffer = slice(stream, 0, pos)
            /\ (buffer = <<>> \/ findPartialPlaceholderStart(buffer) = 0))
    /\ [][(upstream = "open" /\ upstream' = "failed" /\ pos > 0) =>
             emitted' = Append(emitted, ErrorTerminator)]_vars
    /\ [][upstream = "failed" => emitted' = emitted]_vars

\* C19: client cancellation. Once the client has disconnected no further
\* chunk is read, nothing further is yielded, the final flush is not run,
\* and the upstream has been cancelled.
C19_ClientCancel ==
    /\ [](client = "disconnected" => (spc = "cancelled" /\ upstream = "cancelled"))
    /\ [][client = "disconnected" =>
             (pos' = pos /\ emitted' = emitted /\ output' = output /\ buffer' = buffer)]_vars

\* C19 witness: the client disconnected after text was yielded, with a
\* partial placeholder held and text still to come.
C19_Witness ==
    /\ client = "disconnected"
    /\ emitted # <<>>
    /\ buffer # <<>>
    /\ pos < Len(stream)

----------------------------------------------------------------------------
(* Claims on the detection fan-out *)

AllCategories == { PERSON, EMAIL_ADDRESS, API_KEY }

\* The parts a detector call was issued for.
CalledParts == { i \in DOMAIN det : det[i].state # "none" }

\* In the dispatched request token t1 occurs before every occurrence of t2.
occursBefore(t1, t2) ==
    \E i \in TextParts : \E p \in occurrences(dispatched.request[i].text, t1) :
        \A j \in TextParts : \A q \in occurrences(dispatched.request[j].text, t2) :
            i < j \/ (i = j /\ p < q)

maskedBy(c, t) ==
    IF c = API_KEY
    THEN UNION { { <<i, s.start>> :
                     s \in { x \in secretsOf(i) : secretOriginal(i, x) = mctx.mapping[t] } } :
                 i \in TextParts }
    ELSE UNION { { <<i, resolved[i][k].start>> :
                     k \in { x \in 1..Len(resolved[i]) :
                               originalOf(i, resolved[i][x]) = mctx.mapping[t] } } :
                 i \in TextParts }

\* x stands before y in extraction order.
standsBefore(x, y) == x[1] < y[1] \/ (x[1] = y[1] /\ x[2] < y[2])

\* Token t1 of category c was issued for an entity that stands before every
\* entity token t2 could have been issued for.
issuedBefore(c, t1, t2) ==
    /\ maskedBy(c, t2) # {}
    /\ \E x \in maskedBy(c, t1) : \A y \in maskedBy(c, t2) : standsBefore(x, y)

----------------------------------------------------------------------------
(* Claims on what unmasking leaves alone *)

\* The positions of the text at which a token of the mapping stands.
knownAt(text, mapping) ==
    { i \in 0..Len(text) : \E t \in DOMAIN mapping : startsWithAt(text, t, i) }

\* The token of the mapping standing at position i.
tokenAt(text, mapping, i) ==
    CHOOSE t \in DOMAIN mapping : startsWithAt(text, t, i)

\* The positions at which a placeholder-shaped substring stands that is no
\* token of the mapping.
unknownAt(text, mapping) ==
    { i \in 0..Len(text) :
        /\ placeholderEndAt(text, i) # -1
        /\ slice(text, i, placeholderEndAt(text, i)) \notin DOMAIN mapping }

\* What each token of the mapping is written as under the masking settings.
shown(mapping, masking) ==
    [ t \in DOMAIN mapping |-> replacement(mapping[t], masking) ]

\* The text with the tokens at the positions R replaced by what the mapping
\* gives for them, every other character as it was.
RECURSIVE replacedAt(_, _, _, _)
replacedAt(text, i, R, mapping) ==
    IF i >= Len(text) THEN <<>>
    ELSE IF i \in R
         THEN mapping[tokenAt(text, mapping, i)]
              \o replacedAt(text, i + Len(tokenAt(text, mapping, i)), R, mapping)
         ELSE <<text[i + 1]>> \o replacedAt(text, i + 1, R, mapping)

\* How far the replacements at the positions of R before i move position i.
RECURSIVE movedBy(_, _, _, _)
movedBy(text, i, R, mapping) ==
    IF { r \in R : r < i } = {} THEN 0
    ELSE LET r == SetMin({ q \in R : q < i })
             t == tokenAt(text, mapping, r)
         IN  Len(mapping[t]) - Len(t) + movedBy(text, i, R \ {r}, mapping)

\* No two of the tokens at the positions R share a character.
apart(text, R, mapping) ==
    \A r, q \in R : r < q => r + Len(tokenAt(text, mapping, r)) <= q

\* C21: unmasking changes only tokens the context issued. The result is the
\* response with some occurrences of tokens of the forward mapping replaced
\* by their originals (behind the marker text when markers are shown) and
\* every other character unchanged; every placeholder-shaped substring that
\* is no key of the mapping stands unchanged in the result; with an empty
\* context the result is the response.
C21_UnmaskFrame ==
    upc = "returned" =>
        /\ \E R \in SUBSET knownAt(uText, uContext.mapping) :
              /\ apart(uText, R, uContext.mapping)
              /\ uOut = replacedAt(uText, 0, R, shown(uContext.mapping, uConfig))
              /\ \A i \in unknownAt(uText, uContext.mapping) :
                    startsWithAt(uOut,
                                 slice(uText, i, placeholderEndAt(uText, i)),
                                 i + movedBy(uText, i, R, shown(uContext.mapping, uConfig)))
        /\ uContext = createContext => uOut = uText

\* C21 witness: a response holding a token the context issued and, after
\* it, a placeholder-shaped token it did not issue was unmasked with markers
\* shown; the first was replaced, the second stands where the replacement
\* moved it.
C21_Witness ==
    /\ upc = "returned"
    /\ uContext = StreamContext
    /\ uConfig.show_markers
    /\ uText = PII_PLACEHOLDER_FORMAT(PERSON, 1) \o PII_PLACEHOLDER_FORMAT(PERSON, 2)
    /\ uOut = marker_text \o <<"b", "o">> \o PII_PLACEHOLDER_FORMAT(PERSON, 2)

----------------------------------------------------------------------------
(* Claims on intervals removed by removed intervals *)

\* C22: every merged interval that is absent from the output overlaps an
\* interval of the output that ranks higher in the tie-break order.
C22_NeverOrphaned ==
    rpc = "resolved" =>
        LET M == mergedIntervals
        IN  \A a \in M \ Range(rOut) :
                \E b \in Range(rOut) : conflicting(a, b) /\ preferred(b, a)

\* C22 when step 3 decides every overlapping pair of the merged intervals.
C22_NeverOrphanedEveryPair ==
    (rpc = "resolved" /\ rReading = "everyPair") =>
        \A a \in mergedIntervals \ Range(rOut) :
            \E b \in Range(rOut) : conflicting(a, b) /\ preferred(b, a)

\* C22 when step 3 passes over a pair with an interval already dropped.
C22_NeverOrphanedRetainedPairs ==
    (rpc = "resolved" /\ rReading = "retainedPairs") =>
        \A a \in mergedIntervals \ Range(rOut) :
            \E b \in Range(rOut) : conflicting(a, b) /\ preferred(b, a)

\* The merged intervals from the most preferred one to the least.
rankedScan ==
    CHOOSE order \in ScanOrders(mergedIntervals) :
        \A i, j \in 1..Len(order) : i < j => preferred(order[i], order[j])

\* C22 for a resolver whose step 3 visits the merged intervals from the most
\* preferred one down and passes over a pair with an interval already
\* dropped.
C22_NeverOrphanedRankedScan ==
    rpc = "resolved" =>
        LET out == Range(removeConflicting(rankedScan, TRUE))
        IN  \A a \in mergedIntervals \ out :
                \E b \in out : conflicting(a, b) /\ preferred(b, a)

----------------------------------------------------------------------------
(* Claims on the setup script *)

\* The message or command m is in the trace.
traced(m) == \E k \in 1..Len(trace) : trace[k] = m

\* C23: startServices is reached only when Bun was found or installed and
\* Podman was found or installed; a process that exited before
\* startServices exited with status 1; and the Bun dev server is spawned
\* only after the podman compose command succeeded.
C23_StartServicesGuarded ==
    /\ (traced("All dependencies ready") \/ pc \in { "startServices", "spawn", "serving" })
          => ready = { "bun", "podman" }
    /\ pc = "exited" => exitCode = 1
    /\ (pc # "exited" /\ ~ traced("All dependencies ready")) => exitCode = -1
    /\ traced("spawn bun") =>
          \E k \in 1..(Len(trace) - 1) :
              trace[k] = "podman compose up" /\ trace[k + 1] = "spawn bun"

====
